---- MODULE Spec2Model ----
(***************************************************************************)
(* Model of tahoefuse/crypto.py: CryptFile, a random-access file encrypted *)
(* with AES in counter mode behind a 16-byte nonce header, together with   *)
(* NullStream and the 128-bit helpers.                                     *)
(*                                                                         *)
(* The container file is a sequence of bytes (0..255).  A 128-bit integer  *)
(* is kept as 8 little-endian limbs of 16 bits, so that the arithmetic     *)
(* modulo 2^128 is exact.  AES is an external primitive: its keystream is  *)
(* modelled by a fixed function of key, counter value and byte index.      *)
(* flock(2) is the operating system's: a shared lock excludes exclusive    *)
(* ones, an exclusive lock excludes every other lock.                      *)
(***************************************************************************)
EXTENDS Integers, Sequences, FiniteSets, TLC

VARIABLES
  fileExists,   \* whether the file at path exists
  fileData,     \* its bytes
  flock,        \* handle -> "none" | "SH" | "EX": the flock each open file holds
  hstate,       \* handle -> "new" | "opened" | "open" | "closed" | "failed"
  hmode,        \* handle -> self.mode
  hkey,         \* handle -> self.key
  hnonce,       \* handle -> self.nonce (limbs)
  hoffset,      \* handle -> self.offset
  nmut,         \* writes and truncates applied to the file since it was created
  last,         \* the last call: what was called, with what, and how it ended
  rt            \* history of a create / write / close / reopen / read cycle

vars == <<fileExists, fileData, flock, hstate, hmode, hkey, hnonce, hoffset,
          nmut, last, rt>>

----------------------------------------------------------------------------
(* Program constants *)

HEADER_SIZE == 16

BLOCK_SIZE == 16

KEY_SIZE == 32

NULL_BLOCK_SIZE == 131072

LIMB == 65536

(* Bounds of the model *)

MaxOff == 18

MaxMut == 3

----------------------------------------------------------------------------
(* Bytes and byte strings *)

Zeros(n) == [i \in 1..n |-> 0]

Min(a, b) == IF a < b THEN a ELSE b

Max(a, b) == IF a < b THEN b ELSE a

RECURSIVE XorBits(_, _, _)
XorBits(a, b, k) ==
  IF k = 0 THEN 0
  ELSE ((a + b) % 2) + 2 * XorBits(a \div 2, b \div 2, k - 1)

Xor(a, b) == XorBits(a, b, 8)

RECURSIVE Concat(_)
Concat(chunks) ==
  IF chunks = <<>> THEN <<>> ELSE Head(chunks) \o Concat(Tail(chunks))

----------------------------------------------------------------------------
(* 128-bit integers: 8 limbs of 16 bits, least significant first *)

\* struct.unpack('<Q', s)[0], as 4 limbs; s must be 8 bytes long
UnpackQ(s) == [k \in 1..4 |-> s[2 * k - 1] + 256 * s[2 * k]]

\* struct.pack('<Q', limbs)
PackQ(q) == [i \in 1..8 |-> IF i % 2 = 1 THEN q[(i + 1) \div 2] % 256
                                         ELSE q[i \div 2] \div 256]

\* struct.error unless both halves are exactly 8 bytes
UnpackFails(s) == Len(s) < 16

_unpack_uint128(s) == UnpackQ(SubSeq(s, 1, 8)) \o UnpackQ(SubSeq(s, 9, Len(s)))

_pack_uint128(num) == PackQ(SubSeq(num, 1, 4)) \o PackQ(SubSeq(num, 5, 8))

RECURSIVE AddCarry(_, _, _)
AddCarry(a, i, carry) ==
  IF i > Len(a) THEN <<>>
  ELSE IF carry = 0 THEN SubSeq(a, i, Len(a))
  ELSE LET t == a[i] + carry
       IN  <<t % LIMB>> \o AddCarry(a, i + 1, t \div LIMB)

\* mutant: the sum saturates at 2^128 - 1 instead of wrapping
WrapsumSaturating(a, b) ==
  IF Len(AddCarry(a \o <<0>>, 1, b)) = 9 /\ AddCarry(a \o <<0>>, 1, b)[9] > 0
  THEN [i \in 1..8 |-> LIMB - 1]
  ELSE AddCarry(a, 1, b)

\* (a + b) % 2^128, for a 128-bit a and a small integer b of either sign
_wrapsum_uint128(a, b) == AddCarry(a, 1, b)

----------------------------------------------------------------------------
(* AES in counter mode *)

CtrMix(ctr) ==
  (ctr[1] + 3 * ctr[2] + 5 * ctr[3] + 7 * ctr[4]
     + 9 * ctr[5] + 11 * ctr[6] + 13 * ctr[7] + 15 * ctr[8]) % 256

\* byte j of the AES encryption of counter block ctr under key
KeystreamByte(key, ctr, j) == (37 * CtrMix(ctr) + 11 * j + 101 * key.id + 5) % 256

\* the keystream byte at position p of a cipher object started at counter ctr
CryptorByte(c, p) ==
  KeystreamByte(c.key, _wrapsum_uint128(c.ctr, p \div BLOCK_SIZE), p % BLOCK_SIZE)

\* cryptor.encrypt(data) and cryptor.decrypt(data): the bytes returned
Crypt(c, data) == [i \in 1..Len(data) |-> Xor(data[i], CryptorByte(c, c.pos + i - 1))]

\* the cipher object after it has processed n bytes
Advance(c, n) == [c EXCEPT !.pos = @ + n]

\* mutant: the cipher starts at the head of the block, without the skip of
\* offset mod 16 bytes of keystream
GetAESAtBlockStart(key, nonce, offset) ==
  [key |-> key, ctr |-> _wrapsum_uint128(nonce, offset \div BLOCK_SIZE), pos |-> 0]

_get_AES_at(key, nonce, offset) ==
  LET start_block == offset \div BLOCK_SIZE
      start_off   == offset % BLOCK_SIZE
      cryptor     == [key |-> key, ctr |-> _wrapsum_uint128(nonce, start_block), pos |-> 0]
  IN  Advance(cryptor, start_off)

----------------------------------------------------------------------------
(* NullStream.__iter__: the chunks it yields *)

RECURSIVE NullChunks(_, _)
NullChunks(remaining, block_size) ==
  IF remaining > 0
  THEN IF remaining > block_size
       THEN <<Zeros(block_size)>> \o NullChunks(remaining - block_size, block_size)
       ELSE <<Zeros(remaining)>>
  ELSE <<>>

\* mutant: the stream is one byte short
NullStreamShort(size) == NullChunks(size - 1, NULL_BLOCK_SIZE)

NullStream(size) == NullChunks(size, NULL_BLOCK_SIZE)

----------------------------------------------------------------------------
(* The underlying file object *)

\* fp.seek(pos); fp.write(bytes)
FileWrite(f, pos, bytes) ==
  IF bytes = <<>> THEN f
  ELSE [i \in 1..Max(Len(f), pos + Len(bytes)) |->
          IF i > pos /\ i <= pos + Len(bytes) THEN bytes[i - pos]
          ELSE IF i <= Len(f) THEN f[i] ELSE 0]

\* fp.seek(pos); fp.read(size)
FileRead(f, pos, size) == SubSeq(f, pos + 1, Min(Len(f), pos + size))

\* fp.truncate(n), n >= 0
FileTruncate(f, n) == [i \in 1..n |-> IF i <= Len(f) THEN f[i] ELSE 0]

----------------------------------------------------------------------------
(* CryptFile *)

Handles == {1, 2}

NoKey == [len |-> 0, id |-> 0]

NoNonce == Zeros(8)

NoCall == [op |-> "none", h |-> 0, ok |-> TRUE, err |-> "", n |-> 0, w |-> 0,
           mode |-> "", stream |-> FALSE, data |-> <<>>, ret |-> <<>>, preSize |-> 0]

Call(op, h) == [NoCall EXCEPT !.op = op, !.h = h]

\* a call that raised before it changed anything: the call, its integer
\* arguments, its mode and the exception are kept
Raised(c, err) ==
  [Call(c.op, c.h) EXCEPT !.ok = FALSE, !.err = err, !.n = c.n, !.w = c.w,
                          !.mode = c.mode]

\* a call that raised after it had acted
RaisedLate(c, err) == [c EXCEPT !.ok = FALSE, !.err = err]

RtNone == [stage |-> 0, h |-> 0, key |-> NoKey, P |-> <<>>]

\* mutant: a file opened 'rb' takes writes as well
WritableAnyMode(mode) == mode \in {"rb", "r+b", "w+b"}

\* the modes whose file object accepts write and truncate
Writable(mode) == mode \in {"r+b", "w+b"}

\* mutant: a key of any length is accepted
KeyAcceptedAny(key) == TRUE

\* len(key) == 32
KeyAccepted(key) == key.len = KEY_SIZE

\* mutant: an exclusive lock is granted whatever shared locks are held
LockFreeIgnoresShared(h, mode) == \A g \in Handles \ {h} : flock[g] # "EX"

\* flock(fd, LOCK_SH) or flock(fd, LOCK_EX) would not block
LockFree(h, mode) ==
  IF mode = "rb"
  THEN \A g \in Handles \ {h} : flock[g] # "EX"
  ELSE \A g \in Handles \ {h} : flock[g] = "none"

_get_file_size(f) == Len(f)

\* mutant: every chunk is encrypted by a cipher positioned at the start offset
\* again, not by the one the chunks before it advanced
RECURSIVE WriteChunksRestart(_, _, _, _)
WriteChunksRestart(f, fpos, c, chunks) ==
  IF chunks = <<>> THEN f
  ELSE WriteChunksRestart(FileWrite(f, fpos, Crypt(c, Head(chunks))),
                          fpos + Len(Head(chunks)), c, Tail(chunks))

RECURSIVE WriteChunks(_, _, _, _)
WriteChunks(f, fpos, c, chunks) ==
  IF chunks = <<>> THEN f
  ELSE WriteChunks(FileWrite(f, fpos, Crypt(c, Head(chunks))),
                   fpos + Len(Head(chunks)),
                   Advance(c, Len(Head(chunks))),
                   Tail(chunks))

\* mutant: the write forgets the header and lands at the plaintext offset
WriteNoHeader(f, key, nonce, chunks, offset) ==
  WriteChunks(f, offset, _get_AES_at(key, nonce, offset), chunks)

\* the file after self._write(data, offset); a buffer is the single chunk <<data>>
_write(f, key, nonce, chunks, offset) ==
  WriteChunks(f, HEADER_SIZE + offset, _get_AES_at(key, nonce, offset), chunks)

\* mutant: the read forgets the header and starts at the plaintext offset
ReadNoHeader(f, key, nonce, size, offset) ==
  IF size <= 0 THEN <<>>
  ELSE Crypt(_get_AES_at(key, nonce, offset), FileRead(f, offset, size))

\* self._read(size, offset), size an integer
_read(f, key, nonce, size, offset) ==
  IF size <= 0 THEN <<>>
  ELSE Crypt(_get_AES_at(key, nonce, offset), FileRead(f, HEADER_SIZE + offset, size))

\* the size self._read uses when size is None
SizeToEnd(f, offset) == _get_file_size(f) - offset - HEADER_SIZE

\* mutant: the padding is left as the literal zero bytes of the file system
PadToPlain(f, key, nonce, file_size, end) == f

\* mutant: the padding is written from offset 0, over the data already there
PadToFromStart(f, key, nonce, file_size, end) ==
  IF file_size < end
  THEN _write(f, key, nonce, NullStream(end - HEADER_SIZE), 0)
  ELSE f

\* the file after the null padding of write and truncate
PadTo(f, key, nonce, file_size, end) ==
  IF file_size < end
  THEN _write(f, key, nonce, NullStream(end - file_size), file_size - HEADER_SIZE)
  ELSE f

----------------------------------------------------------------------------
(* The state after construction: no file at path, no CryptFile object *)

Init ==
  /\ fileExists = FALSE
  /\ fileData = <<>>
  /\ flock = [h \in Handles |-> "none"]
  /\ hstate = [h \in Handles |-> "new"]
  /\ hmode = [h \in Handles |-> ""]
  /\ hkey = [h \in Handles |-> NoKey]
  /\ hnonce = [h \in Handles |-> NoNonce]
  /\ hoffset = [h \in Handles |-> 0]
  /\ nmut = 0
  /\ last = NoCall
  /\ rt = RtNone

\* CryptFile.__init__ up to open(path, mode): the key and mode checks, and the
\* open, which truncates (or creates) the file in mode 'w+b'
OpenFile(h, key, mode) ==
  LET c == [Call("open", h) EXCEPT !.n = key.len, !.mode = mode,
                                   !.data = <<key.id>>] IN
  /\ hstate[h] \in {"new", "closed"}
  /\ IF ~KeyAccepted(key)
     THEN /\ last' = Raised(c, "ValueError")
          /\ rt' = RtNone
          /\ UNCHANGED <<fileExists, fileData, flock, hstate, hmode, hkey,
                         hnonce, hoffset, nmut>>
     ELSE IF mode \notin {"rb", "r+b", "w+b"} \/ (mode # "w+b" /\ ~fileExists)
     THEN /\ last' = Raised(c, "IOError")
          /\ rt' = RtNone
          /\ UNCHANGED <<fileExists, fileData, flock, hstate, hmode, hkey,
                         hnonce, hoffset, nmut>>
     ELSE /\ hstate' = [hstate EXCEPT ![h] = "opened"]
          /\ hmode' = [hmode EXCEPT ![h] = mode]
          /\ hkey' = [hkey EXCEPT ![h] = key]
          /\ hnonce' = [hnonce EXCEPT ![h] = NoNonce]
          /\ hoffset' = [hoffset EXCEPT ![h] = 0]
          /\ IF mode = "w+b"
             THEN fileExists' = TRUE /\ fileData' = <<>> /\ nmut' = 0
             ELSE UNCHANGED <<fileExists, fileData, nmut>>
          /\ last' = c
          /\ rt' = IF rt.stage = 3 /\ mode = "rb" /\ key = rt.key
                   THEN [rt EXCEPT !.h = h] ELSE RtNone
          /\ UNCHANGED flock

\* CryptFile.__init__ from flock on: the lock, then the header written (a fresh
\* random nonce, 'w+b') or read, and the cursor set
LockInit(h, rnd) ==
  /\ hstate[h] = "opened"
  /\ LockFree(h, hmode[h])
  /\ flock' = [flock EXCEPT ![h] = IF hmode[h] = "rb" THEN "SH" ELSE "EX"]
  /\ LET nonce == IF hmode[h] = "w+b" THEN rnd ELSE FileRead(fileData, 0, 16) IN
     /\ fileData' = IF hmode[h] = "w+b" THEN FileWrite(fileData, 0, rnd) ELSE fileData
     /\ IF UnpackFails(nonce)
        THEN /\ hstate' = [hstate EXCEPT ![h] = "failed"]
             /\ last' = Raised(Call("init", h), "struct.error")
             /\ rt' = RtNone
             /\ UNCHANGED hnonce
        ELSE /\ hstate' = [hstate EXCEPT ![h] = "open"]
             /\ hnonce' = [hnonce EXCEPT ![h] = _unpack_uint128(nonce)]
             /\ last' = Call("init", h)
             /\ rt' = IF hmode[h] = "w+b"
                      THEN [stage |-> 1, h |-> h, key |-> hkey[h], P |-> <<>>]
                      ELSE IF rt.stage = 3 /\ rt.h = h
                      THEN [rt EXCEPT !.stage = 4]
                      ELSE RtNone
  /\ UNCHANGED <<fileExists, hmode, hkey, hoffset, nmut>>

\* the object of a constructor that raised is dropped: its file is closed with it
Finalize(h) ==
  /\ hstate[h] = "failed"
  /\ hstate' = [hstate EXCEPT ![h] = "new"]
  /\ flock' = [flock EXCEPT ![h] = "none"]
  /\ hmode' = [hmode EXCEPT ![h] = ""]
  /\ hkey' = [hkey EXCEPT ![h] = NoKey]
  /\ last' = Call("finalize", h)
  /\ rt' = RtNone
  /\ UNCHANGED <<fileExists, fileData, hnonce, hoffset, nmut>>

\* mutant: an end-relative seek counts from the end of the file, header included
SeekTargetRaw(f, cur, offset, whence) ==
  IF whence = 0 THEN offset
  ELSE IF whence = 1 THEN cur + offset
  ELSE _get_file_size(f) + offset

\* the offset seek computes, for whence 0, 1 and 2
SeekTarget(f, cur, offset, whence) ==
  IF whence = 0 THEN offset
  ELSE IF whence = 1 THEN cur + offset
  ELSE _get_file_size(f) - HEADER_SIZE + offset

Seek(h, offset, whence) ==
  LET c == [Call("seek", h) EXCEPT !.n = offset, !.w = whence]
      target == SeekTarget(fileData, hoffset[h], offset, whence)
  IN
  /\ hstate[h] \in {"open", "closed"}
  /\ IF whence = 2 /\ hstate[h] = "closed"
     THEN last' = Raised(c, "ValueError") /\ UNCHANGED hoffset
     ELSE IF whence \notin {0, 1, 2} \/ target < 0
     THEN last' = Raised(c, "IOError") /\ UNCHANGED hoffset
     ELSE last' = c /\ hoffset' = [hoffset EXCEPT ![h] = target]
  /\ rt' = RtNone
  /\ UNCHANGED <<fileExists, fileData, flock, hstate, hmode, hkey, hnonce, nmut>>

Tell(h) ==
  /\ hstate[h] \in {"open", "closed"}
  /\ last' = [Call("tell", h) EXCEPT !.n = hoffset[h]]
  /\ rt' = RtNone
  /\ UNCHANGED <<fileExists, fileData, flock, hstate, hmode, hkey, hnonce,
                 hoffset, nmut>>

Read(h, toEnd, size) ==
  LET c == [Call("read", h) EXCEPT !.n = size, !.stream = toEnd]
      sz == IF toEnd THEN SizeToEnd(fileData, hoffset[h]) ELSE size
      data == _read(fileData, hkey[h], hnonce[h], sz, hoffset[h])
  IN
  /\ hstate[h] \in {"open", "closed"}
  /\ IF hstate[h] = "closed" /\ (toEnd \/ size > 0)
     THEN /\ last' = Raised(c, "ValueError")
          /\ rt' = RtNone
          /\ UNCHANGED hoffset
     ELSE /\ last' = [c EXCEPT !.ret = data]
          /\ hoffset' = [hoffset EXCEPT ![h] = @ + Len(data)]
          /\ rt' = IF rt.stage = 4 /\ rt.h = h /\ toEnd
                   THEN [rt EXCEPT !.stage = 5] ELSE RtNone
  /\ UNCHANGED <<fileExists, fileData, flock, hstate, hmode, hkey, hnonce, nmut>>

\* write(data): data a buffer (chunks = <<data>>) or an iterator over chunks
Write(h, stream, chunks) ==
  LET c == [Call("write", h) EXCEPT !.stream = stream, !.data = chunks,
                                    !.preSize = Len(fileData)]
      file_size == _get_file_size(fileData)
      padded == PadTo(fileData, hkey[h], hnonce[h], file_size, hoffset[h] + HEADER_SIZE)
      written == _write(padded, hkey[h], hnonce[h], chunks, hoffset[h])
  IN
  /\ hstate[h] \in {"open", "closed"}
  /\ IF hstate[h] = "closed"
     THEN /\ last' = Raised(c, "ValueError")
          /\ rt' = RtNone
          /\ UNCHANGED <<fileData, hoffset, nmut>>
     ELSE IF ~Writable(hmode[h])
     THEN /\ last' = Raised(c, IF stream /\ chunks = <<>>
                                   /\ file_size >= hoffset[h] + HEADER_SIZE
                               THEN "TypeError" ELSE "IOError")
          /\ rt' = RtNone
          /\ UNCHANGED <<fileData, hoffset, nmut>>
     ELSE /\ fileData' = written
          /\ nmut' = nmut + 1
          /\ IF stream
             THEN last' = RaisedLate(c, "TypeError") /\ UNCHANGED hoffset
             ELSE /\ last' = c
                  /\ hoffset' = [hoffset EXCEPT ![h] = @ + Len(Concat(chunks))]
          /\ rt' = IF rt.stage = 1 /\ rt.h = h /\ hoffset[h] = 0
                   THEN [rt EXCEPT !.stage = 2, !.P = Concat(chunks)] ELSE RtNone
  /\ UNCHANGED <<fileExists, flock, hstate, hmode, hkey, hnonce>>

\* mutant: truncate pulls a cursor beyond the new end-of-file back to it
OffsetAfterTruncateClamped(offset, size) == Min(offset, Max(size, 0))

\* self.offset after truncate(size): truncate does not assign it
OffsetAfterTruncate(offset, size) == offset

Truncate(h, size) ==
  LET c == [Call("truncate", h) EXCEPT !.n = size, !.preSize = Len(fileData)]
      file_size == _get_file_size(fileData)
      cut == FileTruncate(fileData, size + HEADER_SIZE)
  IN
  /\ hstate[h] \in {"open", "closed"}
  /\ IF hstate[h] = "closed"
     THEN last' = Raised(c, "ValueError") /\ UNCHANGED <<fileData, nmut, hoffset>>
     ELSE IF ~Writable(hmode[h]) \/ size + HEADER_SIZE < 0
     THEN last' = Raised(c, "IOError") /\ UNCHANGED <<fileData, nmut, hoffset>>
     ELSE /\ fileData' = PadTo(cut, hkey[h], hnonce[h], file_size, size + HEADER_SIZE)
          /\ hoffset' = [hoffset EXCEPT ![h] = OffsetAfterTruncate(@, size)]
          /\ nmut' = nmut + 1
          /\ last' = c
  /\ rt' = RtNone
  /\ UNCHANGED <<fileExists, flock, hstate, hmode, hkey, hnonce>>

Close(h) ==
  /\ hstate[h] \in {"open", "closed"}
  /\ hstate' = [hstate EXCEPT ![h] = "closed"]
  /\ flock' = [flock EXCEPT ![h] = "none"]
  /\ hkey' = [hkey EXCEPT ![h] = NoKey]
  /\ last' = Call("close", h)
  /\ rt' = IF rt.stage = 2 /\ rt.h = h THEN [rt EXCEPT !.stage = 3] ELSE RtNone
  /\ UNCHANGED <<fileExists, fileData, hmode, hnonce, hoffset, nmut>>

----------------------------------------------------------------------------
(* The calls the model makes *)

Keys == {[len |-> 32, id |-> 1], [len |-> 16, id |-> 3]}

Modes == {"rb", "r+b", "w+b", "wb"}

\* what Random.new().read(16) may return: 2^128 - 1, and a value far from it
Nonces == {[i \in 1..16 |-> 255],
           <<200, 1, 0, 0, 0, 0, 0, 0, 0, 0, 0, 0, 0, 0, 0, 3>>}

\* one of them, where the nonce is not what the run is about
CcNonces == {<<200, 1, 0, 0, 0, 0, 0, 0, 0, 0, 0, 0, 0, 0, 0, 3>>}

SeekArgs == {<<0, 0>>, <<15, 0>>, <<17, 1>>, <<-1, 2>>, <<0, 3>>}

ReadArgs == {<<TRUE, 0>>, <<FALSE, 17>>}

Buffers == {<<>>, <<88, 89>>}

Streams == {<<<<88>>, <<>>, <<89>>>>}

TruncArgs == {-17, -1, 1, 17}

\* the bounds on what a call may leave behind
InBounds ==
  /\ \A h \in Handles : hoffset'[h] <= MaxOff
  /\ Len(fileData') <= MaxOff + HEADER_SIZE
  /\ nmut' <= MaxMut

Live(h) == hstate[h] = "open"

----------------------------------------------------------------------------
(* Spec: one process, one CryptFile object at a time, used until closed *)

DoOpen == \E key \in Keys, mode \in Modes : OpenFile(1, key, mode)

DoInit == \E rnd \in Nonces : LockInit(1, rnd)

DoFinalize == Finalize(1)

DoSeek == \E a \in SeekArgs : Live(1) /\ Seek(1, a[1], a[2]) /\ InBounds

DoTell == Live(1) /\ Tell(1)

DoRead == \E a \in ReadArgs : Live(1) /\ Read(1, a[1], a[2])

DoWrite ==
  \E data \in Buffers : Live(1) /\ nmut < MaxMut /\ Write(1, FALSE, <<data>>) /\ InBounds

DoWriteStream ==
  \E chunks \in Streams : Live(1) /\ nmut < MaxMut /\ Write(1, TRUE, chunks) /\ InBounds

DoTruncate ==
  \E size \in TruncArgs : Live(1) /\ nmut < MaxMut /\ size <= MaxOff /\ Truncate(1, size)

DoClose == Live(1) /\ Close(1)

Next ==
  \/ DoOpen
  \/ DoInit
  \/ DoFinalize
  \/ DoSeek
  \/ DoTell
  \/ DoRead
  \/ DoWrite
  \/ DoWriteStream
  \/ DoTruncate
  \/ DoClose

Spec == Init /\ [][Next]_vars

----------------------------------------------------------------------------
(* SpecRT: the cycle create, one write at offset 0, close, reopen, read *)

RtKeys == {[len |-> 32, id |-> 1], [len |-> 32, id |-> 2]}

Plain(n) == [i \in 1..n |-> 64 + i]

Plaintexts == {Plain(n) : n \in {0, 1, 2, BLOCK_SIZE, BLOCK_SIZE + 1, MaxOff}}

\* a plaintext cut into three chunks, the second empty, off the block boundary
Chunked(P) == <<SubSeq(P, 1, Len(P) \div 3), <<>>, SubSeq(P, Len(P) \div 3 + 1, Len(P))>>

RtOpen == \E key \in RtKeys, mode \in {"w+b", "rb"} : OpenFile(1, key, mode)

\* the nonces of the round trip: 2^128 - 1, 2^128 - 2, 2^16 - 1 (a carry from
\* one limb into the next) and a value far from all of them
RtNonces ==
  Nonces \cup {[i \in 1..16 |-> IF i = 1 THEN 254 ELSE 255],
               [i \in 1..16 |-> IF i <= 2 THEN 255 ELSE 0]}

RtInit == \E rnd \in RtNonces : LockInit(1, rnd)

RtWrite ==
  \E P \in Plaintexts : Live(1) /\ nmut = 0 /\ hoffset[1] = 0 /\ Write(1, FALSE, <<P>>)

RtWriteStream ==
  \E P \in Plaintexts : Live(1) /\ nmut = 0 /\ hoffset[1] = 0 /\ Write(1, TRUE, Chunked(P))

RtRead == Live(1) /\ Read(1, TRUE, 0)

RtClose == Live(1) /\ Close(1)

NextRT ==
  \/ RtOpen
  \/ RtInit
  \/ RtWrite
  \/ RtWriteStream
  \/ RtRead
  \/ RtClose

SpecRT == Init /\ [][NextRT]_vars

----------------------------------------------------------------------------
(* SpecClosed: one CryptFile object, called before and after close() *)

UcSeekArgs == {<<3, 0>>, <<3, 1>>, <<0, 2>>}

UcReadArgs == {<<TRUE, 0>>, <<FALSE, 0>>, <<FALSE, 2>>}

UcOpen == \E mode \in {"w+b", "r+b"} : OpenFile(1, [len |-> 32, id |-> 1], mode)

UcInit == \E rnd \in CcNonces : LockInit(1, rnd)

UcSeek == \E a \in UcSeekArgs : Seek(1, a[1], a[2]) /\ InBounds

UcTell == Tell(1)

UcRead == \E a \in UcReadArgs : Read(1, a[1], a[2])

\* at most one write or truncate per container
UcWrite == nmut = 0 /\ Write(1, FALSE, <<<<88, 89>>>>) /\ InBounds

UcTruncate == nmut = 0 /\ Truncate(1, 1)

UcClose == Close(1)

NextClosed ==
  \/ UcOpen
  \/ UcInit
  \/ UcSeek
  \/ UcTell
  \/ UcRead
  \/ UcWrite
  \/ UcTruncate
  \/ UcClose

SpecClosed == Init /\ [][NextClosed]_vars

----------------------------------------------------------------------------
(* SpecConc: two processes, each with its own CryptFile on the same path *)

CcOpen ==
  \E h \in Handles, mode \in {"rb", "r+b", "w+b"} :
    OpenFile(h, [len |-> 32, id |-> 1], mode)

CcInit == \E h \in Handles, rnd \in CcNonces : LockInit(h, rnd)

CcFinalize == \E h \in Handles : Finalize(h)

CcWrite ==
  \E h \in Handles :
    Live(h) /\ nmut < MaxMut /\ Write(h, FALSE, <<<<88, 89>>>>) /\ InBounds

CcRead == \E h \in Handles : Live(h) /\ Read(h, TRUE, 0)

CcClose == \E h \in Handles : Live(h) /\ Close(h)

NextConc ==
  \/ CcOpen
  \/ CcInit
  \/ CcFinalize
  \/ CcWrite
  \/ CcRead
  \/ CcClose

SpecConc == Init /\ [][NextConc]_vars

----------------------------------------------------------------------------
(* SpecLive: two processes opening and closing the same path.  flock blocks *)
(* until the kernel grants the lock: a waiter for whom the lock is free     *)
(* again and again is eventually granted it.  Nothing else is scheduled:    *)
(* whether and when a caller closes a handle, or drops the object of a      *)
(* constructor that raised, is the caller's business.                       *)

LvOpen ==
  \E h \in Handles, mode \in {"rb", "r+b", "w+b"} :
    OpenFile(h, [len |-> 32, id |-> 1], mode)

LvInit == \E h \in Handles, rnd \in CcNonces : LockInit(h, rnd)

LvFinalize == \E h \in Handles : Finalize(h)

LvClose == \E h \in Handles : Live(h) /\ Close(h)

NextLive ==
  \/ LvOpen
  \/ LvInit
  \/ LvFinalize
  \/ LvClose

LockGranted(h) == \E rnd \in CcNonces : LockInit(h, rnd)

SpecLive ==
  /\ Init
  /\ [][NextLive]_vars
  /\ \A h \in Handles : SF_vars(LockGranted(h))

----------------------------------------------------------------------------
(* SpecSplit: one writable CryptFile; the same data is written as a buffer *)
(* and as a stream, cut into three chunks in every possible way            *)

SplitData == {<<65, 66, 67>>}

\* every way of cutting P into three consecutive chunks, empty ones included
Splits(P) ==
  {<<SubSeq(P, 1, c[1]), SubSeq(P, c[1] + 1, c[2]), SubSeq(P, c[2] + 1, Len(P))>> :
     c \in {x \in (0..Len(P)) \X (0..Len(P)) : x[1] <= x[2]}}

SpOpen == \E mode \in {"w+b", "r+b"} : OpenFile(1, [len |-> 32, id |-> 1], mode)

SpInit == \E rnd \in Nonces : LockInit(1, rnd)

SpSeek == \E offset \in {0, 2, BLOCK_SIZE - 2} : Live(1) /\ Seek(1, offset, 0)

SpWrite ==
  \E P \in SplitData : Live(1) /\ nmut < MaxMut - 1 /\ Write(1, FALSE, <<P>>) /\ InBounds

SpWriteStream ==
  \E P \in SplitData : \E chunks \in Splits(P) \cup {<<>>, <<P>>} :
    Live(1) /\ nmut < MaxMut - 1 /\ Write(1, TRUE, chunks) /\ InBounds

SpClose == Live(1) /\ Close(1)

NextSplit ==
  \/ SpOpen
  \/ SpInit
  \/ SpSeek
  \/ SpWrite
  \/ SpWriteStream
  \/ SpClose

SpecSplit == Init /\ [][NextSplit]_vars

----------------------------------------------------------------------------
(* What the properties read *)

\* the plaintext length: what seek(0, 2) and read() take as end-of-file
PlainLen(f) == _get_file_size(f) - HEADER_SIZE

\* the plaintext byte at offset i as a handle with this key and nonce reads it
ByteAt(f, key, nonce, i) == _read(f, key, nonce, 1, i)

Header(f) == SubSeq(f, 1, HEADER_SIZE)

\* the step just taken is a call of op on a handle that was open and writable
WritableCall(op) ==
  /\ last'.op = op
  /\ hstate[last'.h] = "open"
  /\ Writable(hmode[last'.h])

----------------------------------------------------------------------------
(* Properties of Spec *)

\* C4: whenever the container exists and no create-mode open is under way,
\* the file is at least 16 bytes long (its plaintext length, file length
\* minus 16, is not negative).
C4_FileLength ==
  (fileExists /\ \A h \in Handles : ~(hstate[h] = "opened" /\ hmode[h] = "w+b"))
    => Len(fileData) >= HEADER_SIZE

\* C6: a write on an open, writable handle returns normally and leaves the
\* cursor at the old cursor plus the number of bytes of data, for a buffer
\* and for a stream of chunks.
C6_WriteAdvances ==
  [][WritableCall("write") =>
       /\ last'.ok
       /\ hoffset'[last'.h] = hoffset[last'.h] + Len(Concat(last'.data))]_vars

\* C7: a write with the cursor c beyond the plaintext length L leaves the
\* bytes below L as they were, makes the bytes from L up to c read back as
\* zero, places the data at c and makes the plaintext length c + len(data);
\* on an empty container the whole file then reads as c zeros and the data.
C7_HoleFill ==
  [][(WritableCall("write") /\ hoffset[last'.h] > PlainLen(fileData)) =>
       LET h == last'.h
           c == hoffset[h]
           L == PlainLen(fileData)
           d == Concat(last'.data)
       IN  /\ PlainLen(fileData') = c + Len(d)
           /\ \A i \in 0..(c - 1) :
                ByteAt(fileData', hkey[h], hnonce[h], i) =
                  IF i < L THEN ByteAt(fileData, hkey[h], hnonce[h], i) ELSE <<0>>
           /\ _read(fileData', hkey[h], hnonce[h], Len(d), c) = d
           /\ L = 0 => _read(fileData', hkey[h], hnonce[h], c + Len(d), 0)
                         = Zeros(c) \o d]_vars

\* C7 witness: a write of data whose cursor was beyond the end of a container
\* that already held data.
C7_Witness ==
  /\ last.op = "write" /\ last.ok
  /\ Concat(last.data) # <<>>
  /\ last.preSize > HEADER_SIZE
  /\ hoffset[last.h] - Len(Concat(last.data)) > last.preSize - HEADER_SIZE

\* C8: truncate(N), N >= 0, on an open writable handle returns normally and
\* leaves the plaintext length N, the bytes below min(L, N) as they were and
\* the bytes from L up to N reading back as zero; on an empty container
\* read(N) from offset 0 then returns N zero bytes.
C8_Truncate ==
  [][(WritableCall("truncate") /\ last'.n >= 0) =>
       LET h == last'.h
           N == last'.n
           L == PlainLen(fileData)
       IN  /\ last'.ok
           /\ PlainLen(fileData') = N
           /\ \A i \in 0..(N - 1) :
                ByteAt(fileData', hkey[h], hnonce[h], i) =
                  IF i < L THEN ByteAt(fileData, hkey[h], hnonce[h], i) ELSE <<0>>
           /\ L <= 0 => _read(fileData', hkey[h], hnonce[h], N, 0) = Zeros(N)]_vars

\* C8 witness: a container holding data was cut to one byte (byte 0 still
\* holds the data) and has now been grown to 17 bytes.
C8_Witness ==
  /\ last.op = "truncate" /\ last.ok /\ last.n = 17
  /\ last.preSize = HEADER_SIZE + 1
  /\ ByteAt(fileData, hkey[last.h], hnonce[last.h], 0) = <<88>>

\* the plaintext offsets the call just made wrote data to
InWrite(i) ==
  /\ last'.op = "write"
  /\ i >= hoffset[last'.h]
  /\ i < hoffset[last'.h] + Len(Concat(last'.data))

\* C9: bytes written at an offset read back from that offset, and every call
\* on the handle leaves each byte that lies inside the plaintext before and
\* after it, outside the data range of a write, reading as before.
C9_PositionalIndependence ==
  [][\A h \in Handles : (hstate[h] = "open" /\ hstate'[h] = "open") =>
       /\ <<fileData', hkey'[h], hnonce'[h]>> # <<fileData, hkey[h], hnonce[h]>> =>
            \A i \in 0..(Min(PlainLen(fileData), PlainLen(fileData')) - 1) :
              ~InWrite(i) => ByteAt(fileData', hkey'[h], hnonce'[h], i)
                               = ByteAt(fileData, hkey[h], hnonce[h], i)
       /\ (WritableCall("write") /\ last'.h = h) =>
            _read(fileData', hkey[h], hnonce[h], Len(Concat(last'.data)), hoffset[h])
              = Concat(last'.data)]_vars

\* C9 witness: data written at offset 0 still reads back after a write at
\* offset 15 whose padding started at offset 2.
C9_Witness ==
  /\ last.op = "write" /\ last.ok /\ Len(Concat(last.data)) = 2
  /\ hoffset[last.h] = 17
  /\ last.preSize = HEADER_SIZE + 2
  /\ _read(fileData, hkey[last.h], hnonce[last.h], 2, 0) = <<88, 89>>

\* C10: once the container has its header, no call other than a create-mode
\* open changes header bytes [0,16), and the nonce of every open handle is
\* the value stored in the header.
C10_NonceImmutable ==
  [][(Len(fileData) >= HEADER_SIZE /\ ~(last'.op = "open" /\ last'.ok
                                         /\ hmode'[last'.h] = "w+b")) =>
       /\ Len(fileData') >= HEADER_SIZE
       /\ Header(fileData') = Header(fileData)
       /\ \A h \in Handles : hstate'[h] = "open" =>
            hnonce'[h] = _unpack_uint128(Header(fileData'))]_vars

----------------------------------------------------------------------------
(* Properties of SpecRT *)

\* C1: after create, a write of P at offset 0, close, a read-only reopen
\* with the same key and a read to end-of-file, the read returned exactly P.
C1_RoundTrip ==
  rt.stage = 5 => (last.op = "read" /\ last.ok /\ last.ret = rt.P)

\* C1 witness: the cycle completed with a plaintext longer than one block.
C1_Witness ==
  /\ rt.stage = 5
  /\ Len(rt.P) > BLOCK_SIZE
  /\ last.ret = rt.P

----------------------------------------------------------------------------
(* Properties of SpecClosed *)

\* C5: every seek, tell, read, write and truncate on a closed handle fails,
\* and changes neither the cursor nor the file.
C5_UseAfterCloseFails ==
  [][(last'.op \in {"seek", "tell", "read", "write", "truncate"}
        /\ hstate[last'.h] = "closed") =>
       /\ ~last'.ok
       /\ hoffset' = hoffset
       /\ fileData' = fileData]_vars

----------------------------------------------------------------------------
(* Properties of SpecConc *)

\* C2: every step that changes the file is taken by a handle that holds the
\* exclusive lock, and while a handle holds a lock no other handle's step
\* changes the file.
C2_ModifyUnderLock ==
  [][/\ fileData' # fileData => flock'[last'.h] = "EX"
     /\ \A h \in Handles :
          (flock[h] # "none" /\ flock'[h] # "none" /\ last'.h # h)
            => fileData' = fileData]_vars

\* C3: while a write-capable handle is open no other handle, write-capable
\* or read-only, is open: a second open returns only after the first handle
\* closed.
C3_LockExclusivity ==
  \A h \in Handles : \A g \in Handles \ {h} :
    (hstate[h] = "open" /\ Writable(hmode[h])) => hstate[g] # "open"

\* C3 witness: one write-capable handle is open and a second write-mode open
\* has opened the file and waits for the lock.
C3_Witness ==
  \E h \in Handles : \E g \in Handles \ {h} :
    /\ hstate[h] = "open" /\ Writable(hmode[h])
    /\ hstate[g] = "opened" /\ Writable(hmode[g])

----------------------------------------------------------------------------
(* Properties of Spec: error paths of the constructor *)

\* C11: an open with a key whose length is not 32 fails with ValueError in
\* every mode, create mode included, and leaves everything as it was: the file
\* is neither created nor truncated, its bytes are unchanged, no lock is taken
\* and no handle comes to exist.
C11_BadKeyNoIO ==
  [][(last'.op = "open" /\ last'.n # KEY_SIZE) =>
       /\ ~last'.ok
       /\ last'.err = "ValueError"
       /\ fileExists' = fileExists
       /\ fileData' = fileData
       /\ flock' = flock
       /\ hstate' = hstate]_vars

\* C11 witness: a create-mode open with a 16-byte key has failed on a file
\* that holds plaintext, which is still there.
C11_Witness ==
  /\ last.op = "open"
  /\ ~last.ok
  /\ last.n = 16
  /\ last.mode = "w+b"
  /\ fileExists
  /\ Len(fileData) > HEADER_SIZE

----------------------------------------------------------------------------
(* Properties of Spec: read *)

\* the plaintext byte at offset i of a container with this key and nonce: the
\* stored byte 16 + i xor byte i mod 16 of the keystream block nonce + i div 16
PlainByte(f, key, nonce, i) ==
  Xor(f[HEADER_SIZE + i + 1],
      KeystreamByte(key, _wrapsum_uint128(nonce, i \div BLOCK_SIZE), i % BLOCK_SIZE))

\* C12: a read on an open handle at cursor c of a container of plaintext
\* length L succeeds, returns min(size, max(0, L - c)) bytes (max(0, L - c)
\* when no size is given), which are the plaintext from c on, advances the
\* cursor by the number of bytes returned and leaves the file alone.
C12_ReadClamps ==
  [][(last'.op = "read" /\ hstate[last'.h] = "open") =>
       LET h     == last'.h
           c     == hoffset[h]
           avail == Max(0, PlainLen(fileData) - c)
           want  == IF last'.stream THEN avail ELSE Min(last'.n, avail)
       IN  /\ last'.ok
           /\ Len(last'.ret) = want
           /\ \A k \in 1..want :
                last'.ret[k] = PlainByte(fileData, hkey[h], hnonce[h], c + k - 1)
           /\ hoffset'[h] = c + want
           /\ fileData' = fileData]_vars

\* C12 witness: a read of 17 bytes from an unaligned cursor inside the
\* plaintext came back short, clamped at end-of-file in the next block.
C12_Witness ==
  /\ last.op = "read" /\ last.ok /\ ~last.stream
  /\ last.n = 17
  /\ Len(last.ret) \in 1..16
  /\ hoffset[last.h] = PlainLen(fileData)
  /\ (hoffset[last.h] - Len(last.ret)) % BLOCK_SIZE # 0
  /\ hoffset[last.h] > BLOCK_SIZE

\* the other cases of C12, reached as well: a read that returned fewer bytes
\* than the plaintext still held, and a read past end-of-file that returned
\* nothing
C12_ReachedPartial ==
  /\ last.op = "read" /\ last.ok /\ ~last.stream
  /\ Len(last.ret) = last.n
  /\ hoffset[last.h] < PlainLen(fileData)

C12_ReachedPastEnd ==
  /\ last.op = "read" /\ last.ok
  /\ last.ret = <<>>
  /\ hoffset[last.h] > PlainLen(fileData)
  /\ PlainLen(fileData) > 0

----------------------------------------------------------------------------
(* Properties of Spec: seek *)

\* C13: a seek on an open handle sets the cursor to offset (whence 0), to
\* cursor + offset (1) or to plaintext length + offset (2); when that target
\* is negative, or whence is none of the three, it fails and the cursor stays;
\* either way the file keeps its length and bytes, also for a target past
\* end-of-file; and no step of any operation leaves a negative cursor.
C13_SeekPure ==
  [][/\ \A h \in Handles : hoffset'[h] >= 0
     /\ (last'.op = "seek" /\ hstate[last'.h] = "open") =>
          LET h      == last'.h
              target == IF last'.w = 0 THEN last'.n
                        ELSE IF last'.w = 1 THEN hoffset[h] + last'.n
                        ELSE PlainLen(fileData) + last'.n
          IN  /\ IF last'.w \notin {0, 1, 2} \/ target < 0
                 THEN ~last'.ok /\ hoffset' = hoffset
                 ELSE last'.ok /\ hoffset' = [hoffset EXCEPT ![h] = target]
              /\ fileData' = fileData
              /\ fileExists' = fileExists]_vars

\* C13 witness: an end-relative seek to a negative target has failed on a
\* handle whose cursor stands past end-of-file, and stays there.
C13_Witness ==
  /\ last.op = "seek" /\ ~last.ok /\ last.w = 2
  /\ hstate[last.h] = "open"
  /\ PlainLen(fileData) + last.n < 0
  /\ hoffset[last.h] > PlainLen(fileData)

\* the other case of C13, reached as well: a seek has put the cursor past
\* end-of-file
C13_ReachedPastEnd ==
  /\ last.op = "seek" /\ last.ok
  /\ hoffset[last.h] > PlainLen(fileData)
  /\ PlainLen(fileData) > 0

----------------------------------------------------------------------------
(* Properties of Spec: truncate and the cursor *)

\* C14: a truncate, to a size larger than, equal to or smaller than the
\* plaintext length, successful or not, leaves every cursor where it was,
\* also when the cursor is then beyond the new end-of-file.
C14_TruncateKeepsCursor ==
  [][last'.op = "truncate" => hoffset' = hoffset]_vars

\* C14 witness: a truncate has cut the plaintext to a length below the
\* cursor of the handle that made it.
C14_Witness ==
  /\ last.op = "truncate" /\ last.ok
  /\ last.n >= 0
  /\ last.preSize > last.n + HEADER_SIZE
  /\ PlainLen(fileData) = last.n
  /\ hoffset[last.h] > last.n

----------------------------------------------------------------------------
(* Properties of SpecLive *)

\* C15: close releases the handle's lock and discards its key; and if every
\* open handle is eventually closed, every open that waits for the lock
\* eventually stops waiting: it is granted the lock and its constructor ends.
C15_CloseReleasesLock ==
  /\ [][last'.op = "close" =>
          (flock'[last'.h] = "none" /\ hkey'[last'.h] = NoKey)]_vars
  /\ ((\A h \in Handles : [](hstate[h] = "open" => <>(hstate[h] # "open")))
        => (\A g \in Handles : (hstate[g] = "opened") ~> (hstate[g] # "opened")))

----------------------------------------------------------------------------
(* Properties of SpecRT: the counter at the wrap point *)

\* a + 1 modulo 2^128, limb by limb: 2^128 - 1 is followed by 0
Succ128(a) ==
  IF \A i \in 1..8 : a[i] = LIMB - 1
  THEN [i \in 1..8 |-> 0]
  ELSE LET k == CHOOSE j \in 1..8 :
                  a[j] # LIMB - 1 /\ \A i \in 1..(j - 1) : a[i] = LIMB - 1
       IN  [i \in 1..8 |-> IF i < k THEN 0 ELSE IF i = k THEN a[i] + 1 ELSE a[i]]

RECURSIVE AddN128(_, _)
AddN128(a, n) == IF n = 0 THEN a ELSE AddN128(Succ128(a), n - 1)

IsUint128(a) == Len(a) = 8 /\ \A i \in 1..8 : a[i] \in 0..(LIMB - 1)

AllOnes128 == [i \in 1..8 |-> LIMB - 1]

MaxBlock == 3

\* C16: for the nonce of every open handle and every block index n the
\* counter of the cipher positioned at block n is (nonce + n) mod 2^128, a
\* value in [0, 2^128), also where the sum passes 2^128 - 1; and reads, and
\* buffer writes on a write-capable handle, do not fail, and the round trip
\* returns what was written, with the nonce at or next to 2^128 - 1 and a
\* plaintext that crosses the wrap.
C16_CounterWraps ==
  /\ \A h \in Handles : hstate[h] = "open" =>
       \A n \in 0..MaxBlock : \A off \in {0, BLOCK_SIZE - 1} :
         LET cryptor == _get_AES_at(hkey[h], hnonce[h], n * BLOCK_SIZE + off)
         IN  /\ IsUint128(cryptor.ctr)
             /\ cryptor.ctr = AddN128(hnonce[h], n)
             /\ cryptor.pos = off
  /\ last.op = "read" => last.ok
  /\ (last.op = "write" /\ ~last.stream /\ Writable(hmode[last.h])) => last.ok
  /\ rt.stage = 5 => last.ret = rt.P

\* C16 witness: with the nonce 2^128 - 1 a plaintext longer than one block,
\* whose second block is encrypted under counter 0, was read back.
C16_Witness ==
  /\ rt.stage = 5
  /\ hstate[rt.h] = "open"
  /\ hnonce[rt.h] = AllOnes128
  /\ _get_AES_at(hkey[rt.h], hnonce[rt.h], BLOCK_SIZE).ctr = [i \in 1..8 |-> 0]
  /\ Len(rt.P) > BLOCK_SIZE
  /\ last.ok /\ last.ret = rt.P

----------------------------------------------------------------------------
(* Properties of Spec: the keystream of every stored byte *)

\* the keystream byte of plaintext offset i >= 0: byte i mod 16 of the block
\* whose counter is (nonce + i div 16) mod 2^128
KeystreamAt(key, nonce, i) ==
  KeystreamByte(key, AddN128(nonce, i \div BLOCK_SIZE), i % BLOCK_SIZE)

\* the stored byte of plaintext offset i: file position 16 + i
StoredAt(f, i) == f[HEADER_SIZE + i + 1]

\* C17: every step keeps each stored byte equal to its plaintext byte xor the
\* keystream byte of its own position.  A write at cursor c (aligned or not)
\* stores data[i - c] xor keystream(i) at every offset i of the data and
\* 0 xor keystream(i) at every offset of the hole before it; a truncate that
\* grows the plaintext stores 0 xor keystream(i) at every new offset; every
\* other stored byte below the plaintext length stays as it was, and no
\* other call changes the stored plaintext.
C17_KeystreamPosition ==
  [][IF WritableCall("write") \/ WritableCall("truncate")
     THEN LET h == last'.h
              c == hoffset[h]
              L == PlainLen(fileData)
              d == Concat(last'.data)
          IN  \A i \in 0..(PlainLen(fileData') - 1) :
                StoredAt(fileData', i) =
                  IF last'.op = "write" /\ i >= c /\ i < c + Len(d)
                  THEN Xor(d[i - c + 1], KeystreamAt(hkey[h], hnonce[h], i))
                  ELSE IF i >= L
                  THEN Xor(0, KeystreamAt(hkey[h], hnonce[h], i))
                  ELSE StoredAt(fileData, i)
     ELSE fileData' = fileData \/ PlainLen(fileData') <= 0]_vars

\* C17 witness: a write at the unaligned cursor 15, after a hole, has stored
\* its second byte under the first keystream byte of block 1 and left the
\* last byte of the hole under keystream byte 14 of block 0.
C17_Witness ==
  /\ last.op = "write" /\ last.ok
  /\ Concat(last.data) = <<88, 89>>
  /\ hoffset[last.h] = BLOCK_SIZE + 1
  /\ last.preSize < HEADER_SIZE + BLOCK_SIZE - 1
  /\ StoredAt(fileData, BLOCK_SIZE)
       = Xor(89, KeystreamByte(hkey[last.h], Succ128(hnonce[last.h]), 0))
  /\ StoredAt(fileData, BLOCK_SIZE - 2)
       = KeystreamByte(hkey[last.h], hnonce[last.h], BLOCK_SIZE - 2)

----------------------------------------------------------------------------
(* Properties of SpecSplit *)

\* the block sizes NullStream is iterated with: smaller than, and far larger
\* than, the sizes requested
NullBlockSizes == {1, 3, NULL_BLOCK_SIZE}

\* NullStream yields only zero bytes, in non-empty chunks of at most
\* block_size bytes, size bytes in all, and nothing at all for a size <= 0
NullStreamExact ==
  \A size \in (-2)..(MaxOff + HEADER_SIZE) : \A bs \in NullBlockSizes :
    LET chunks == NullChunks(size, bs) IN
    /\ Len(Concat(chunks)) = Max(size, 0)
    /\ size <= 0 => chunks = <<>>
    /\ \A k \in 1..Len(chunks) :
         Len(chunks[k]) \in 1..bs /\ chunks[k] = Zeros(Len(chunks[k]))
    /\ NullStream(size) = NullChunks(size, NULL_BLOCK_SIZE)

\* C18: a write of a sequence of chunks at cursor o leaves exactly the file
\* bytes that the write of their concatenation as one buffer at o leaves,
\* however the data is cut into chunks, at block boundaries or not and with
\* empty chunks; and the zero stream of the padding yields chunks whose
\* lengths sum to the size asked for, and none for a size <= 0.
C18_ChunkedContinuity ==
  [][/\ WritableCall("write") =>
          LET h      == last'.h
              padded == PadTo(fileData, hkey[h], hnonce[h], _get_file_size(fileData),
                              hoffset[h] + HEADER_SIZE)
          IN  fileData' = _write(padded, hkey[h], hnonce[h],
                                 <<Concat(last'.data)>>, hoffset[h])
     /\ NullStreamExact]_vars

\* C18 witness: a stream of three non-empty chunks was written at offset 14,
\* the chunk boundaries falling before, on and after the block boundary.
C18_Witness ==
  /\ last.op = "write" /\ last.stream
  /\ Len(last.data) = 3
  /\ \A k \in 1..3 : Len(last.data[k]) = 1
  /\ hoffset[last.h] = BLOCK_SIZE - 2
  /\ PlainLen(fileData) = BLOCK_SIZE + 1
  /\ last.preSize > HEADER_SIZE

\* the other case of C18, reached as well: a stream with two empty chunks
C18_ReachedEmptyChunks ==
  /\ last.op = "write" /\ last.stream
  /\ Len(last.data) = 3
  /\ last.data[1] = <<>> /\ last.data[3] = <<>>
  /\ PlainLen(fileData) > BLOCK_SIZE

----------------------------------------------------------------------------
(* Properties of SpecConc: the error paths of the constructor *)

\* C19: a constructor that has raised, on the key, the mode, the open or the
\* header of a file shorter than 16 bytes, holds no lock on the file: the
\* lock it took is released by the time the error reaches the caller.
C19_FailedOpenReleasesLock ==
  \A h \in Handles :
    (\/ hstate[h] = "failed"
     \/ (last.h = h /\ last.op \in {"open", "init"} /\ ~last.ok))
      => flock[h] = "none"

----------------------------------------------------------------------------
(* Properties of Spec: the read-only handle *)

\* C20: no call on an open handle of mode 'rb' changes the file: seek, tell
\* and read leave its length and bytes as they were, and write and truncate
\* fail and leave the file and the cursor as they were.
C20_ReadOnlyNeverModifies ==
  [][(/\ last'.op \in {"seek", "tell", "read", "write", "truncate"}
      /\ hstate[last'.h] = "open"
      /\ hmode[last'.h] = "rb") =>
       /\ fileData' = fileData
       /\ fileExists' = fileExists
       /\ last'.op \in {"write", "truncate"} => (~last'.ok /\ hoffset' = hoffset)]_vars

\* C20 witness: a write on a read-only handle whose cursor is past the end of
\* a container that holds data has failed.
C20_Witness ==
  /\ last.op = "write" /\ ~last.ok
  /\ hstate[last.h] = "open" /\ hmode[last.h] = "rb"
  /\ flock[last.h] = "SH"
  /\ PlainLen(fileData) > 0
  /\ hoffset[last.h] > PlainLen(fileData)

\* the other case of C20, reached as well: a truncate on a read-only handle
C20_ReachedTruncate ==
  /\ last.op = "truncate" /\ ~last.ok /\ last.n = 1
  /\ hstate[last.h] = "open" /\ hmode[last.h] = "rb"
  /\ PlainLen(fileData) > 1

====
